---- MODULE Spec2Model ----
(***************************************************************************)
(* NewsHub (abdnews) - view counting in ArticleViewCounterMiddleware.      *)
(*                                                                         *)
(* Every HTTP request is one worker.  A request walks through              *)
(* process_view and, for an article or video detail GET, through           *)
(* _increment_article_view / _increment_video_view: transaction.atomic     *)
(* with SELECT ... FOR UPDATE, the author test, cache.get, cache.set and   *)
(* the write of views_count.  The relational store, the cache and the      *)
(* clock are shared by all requests.                                       *)
(*                                                                         *)
(* Further parts: the subscriptions (SubscribeView, UserSubscription       *)
(* activate / cancel / renew, the admin actions), the access decision and  *)
(* preview of ArticleDetailView.retrieve, the profile endpoints, and       *)
(* Category.article_count kept by the Article signal receivers.  Each      *)
(* part has its own specification over the same variables.                 *)
(***************************************************************************)
EXTENDS Integers, Sequences, FiniteSets, Bags, TLC

(***************************************************************************)
(* Bounds of the model.                                                    *)
(***************************************************************************)
NumReq == 3
MaxConcurrent == 2
TickStep == 2400
MaxTicks == 2
MaxFaults == 1
MaxDays == 2
MaxMoments == 1
MaxOps == 2
MaxProfiles == 1
MaxArticles == 3

(***************************************************************************)
(* Program constants.                                                      *)
(***************************************************************************)
DEDUP_TIMEOUT == 3600
\* data['content'][:200]
PREVIEW_LEN == 200
\* timedelta(days=1), in seconds
Day == 86400

Workers == 1..MaxConcurrent

(***************************************************************************)
(* The relational store: users, author profiles, articles, videos.         *)
(***************************************************************************)
Anonymous == "AnonymousUser"
Users == {"alice", "bob"}
NoAuthor == "None"

\* Author.user : OneToOneField(CustomUser)
Author == [a \in {"alice_profile"} |-> [user |-> "alice"]]

\* Article rows: slug, status, author (nullable foreign key to Author)
Article ==
  [id \in {1, 2} |->
     IF id = 1 THEN [slug |-> "news", status |-> "published", author |-> "alice_profile"]
               ELSE [slug |-> "draft-news", status |-> "draft", author |-> "alice_profile"]]

\* Video rows: slug, is_active, author (nullable foreign key to Author)
Video ==
  [id \in {1} |-> [slug |-> "clip", is_active |-> TRUE, author |-> NoAuthor]]

NoItem == <<"none", 0>>
Items == {<<"article", id>> : id \in DOMAIN Article} \cup {<<"video", id>> : id \in DOMAIN Video}

RowAuthor(item) ==
  IF item[1] = "article" THEN Article[item[2]].author ELSE Video[item[2]].author

\* the user is the one behind the author profile of the row
OwnContent(user, item) ==
  /\ user # Anonymous
  /\ RowAuthor(item) # NoAuthor
  /\ Author[RowAuthor(item)].user = user

\* views_count = models.PositiveIntegerField(default=0); the published
\* article starts with views it has already collected.
InitViews == [item \in Items |-> IF item = <<"article", 1>> THEN 7 ELSE 0]

(***************************************************************************)
(* Requests.                                                               *)
(***************************************************************************)
Methods == {"GET", "POST"}

\* what resolve(request.path_info) gives: url_name, namespace, kwargs
Paths ==
  { [url_name |-> "article-detail", namespace |-> "news", slug |-> "news"],
    [url_name |-> "article-detail", namespace |-> "news", slug |-> "draft-news"],
    [url_name |-> "article-detail", namespace |-> "news", slug |-> "nope"],
    [url_name |-> "video-detail", namespace |-> "news", slug |-> "clip"],
    [url_name |-> "category-detail", namespace |-> "news", slug |-> "news"] }
NoPath == [url_name |-> "-", namespace |-> "-", slug |-> "-"]

\* request.META: the X-Forwarded-For chain and REMOTE_ADDR
Metas ==
  { [xff |-> <<>>, remote |-> "10.0.0.1"],
    [xff |-> <<"10.0.0.2", "10.0.0.1">>, remote |-> "10.0.0.1"] }
Ips == {"10.0.0.1", "10.0.0.2"}

\* _get_client_ip: left-most X-Forwarded-For entry, else REMOTE_ADDR
GetClientIp(meta) ==
  IF meta.xff # <<>> THEN Head(meta.xff) ELSE meta.remote

\* f"article_view_{article.id}_{ip}" / f"video_view_{video.id}_{ip}"
CacheKey(item, ip) == <<item[1] \o "_view", item[2], ip>>
Keys == {CacheKey(item, ip) : item \in Items, ip \in Ips}

Exceptions == {"Resolver404", "DatabaseError", "CacheError"}

VARIABLES
  req,              \* req[w]: the request worker w is handling (position and locals)
  done,             \* history: the bag of finished requests
  views,            \* views[item]: committed views_count of the row
  cache,            \* cache[key]: expiry time of the marker, 0 when absent
  now,              \* wall clock, seconds
  rowLockEnforced,  \* does the database honour SELECT ... FOR UPDATE
  faults,           \* number of injected failures so far
  lastCounted,      \* history: time of the last counted view per key, -1 if none
  overlapped,       \* history: two requests have been in flight together
  loaded,           \* loaded[item]: views_count held by an Article instance in memory
  customUser,       \* customUser[u]: the CustomUser row (role and snapshot)
  userSubscription, \* the UserSubscription rows, in order of creation
  op,               \* the subscription operation in progress, or the last one
  prof,             \* the profile / password request in progress
  resp,             \* the response of ArticleDetailView.retrieve just given
  plans,            \* the ids of the SubscriptionPlan rows that exist
  articleRows,      \* articleRows[id]: category and status of the Article row
  articleCount      \* articleCount[c]: Category.article_count as stored

\* the state outside the view counter
restVars == <<loaded, customUser, userSubscription, op, prof, resp, plans,
              articleRows, articleCount>>
\* the state outside the accounts
counterVars == <<req, done, views, cache, rowLockEnforced, lastCounted, overlapped, loaded,
                 articleRows, articleCount>>

vars == <<req, done, views, cache, now, rowLockEnforced, faults, lastCounted, overlapped,
          loaded, customUser, userSubscription, op, prof, resp, plans,
          articleRows, articleCount>>

Idle ==
  [pc |-> "idle", method |-> "-", path |-> NoPath, own |-> FALSE,
   item |-> NoItem, ip |-> "-", read |-> 0]

InFlight(w) == req[w].pc # "idle"
\* the write made after the atomic block has been left
InTxn_writeOutside(w) == req[w].pc \in {"cache_get", "cache_set"}
InTxn(w) == req[w].pc \in {"cache_get", "cache_set", "save"}

(***************************************************************************)
(* The cache: get(key) is truthy while the entry has not expired.          *)
(***************************************************************************)
\* the timeout given as 60 (a minute) instead of 3600 seconds
CacheExpiry_minute(t) == t + 60
CacheExpiry(t) == t + DEDUP_TIMEOUT
CacheGetValue(key) == cache[key] > now

(***************************************************************************)
(* Row lock of SELECT ... FOR UPDATE inside transaction.atomic(): held     *)
(* from the select to the end of the transaction.                          *)
(***************************************************************************)
LockHolders(item) == {q \in Workers : InTxn(q) /\ req[q].item = item}
\* the query made without select_for_update()
LockAvailable_noLock(item) == TRUE
LockAvailable(item) == (~rowLockEnforced) \/ LockHolders(item) = {}

(***************************************************************************)
(* Exception handling: `except Exception` in _increment_*_view, bare       *)
(* `except:` in process_view.                                              *)
(***************************************************************************)
IncrementViewCatches(e) == e \in Exceptions
\* `except DatabaseError:` in place of the bare `except:`
ProcessViewCatches_narrow(e) == e = "DatabaseError"
ProcessViewCatches(e) == TRUE

\* what process_view gives its caller when e is raised at `where`
Propagate(e, where) ==
  IF where = "increment" /\ IncrementViewCatches(e) THEN "None"
  ELSE IF ProcessViewCatches(e) THEN "None"
  ELSE "raised"

\* the record kept of a finished request
Finished(q, outcome, exc, ret) ==
  [outcome |-> outcome,
   item |-> IF exc = "-" THEN q.item ELSE NoItem,
   ip |-> IF exc = "-" THEN q.ip ELSE "-",
   exc |-> exc, ret |-> ret]

\* worker w finishes request q and becomes free
Finish(w, q, outcome, exc, ret) ==
  /\ req' = [req EXCEPT ![w] = Idle]
  /\ done' = done (+) SetToBag({Finished(q, outcome, exc, ret)})

CanFail == faults < MaxFaults

\* the lowest free worker takes the next request
CanArrive(w) ==
  /\ req[w].pc = "idle"
  /\ \A q \in Workers : q < w => InFlight(q)
  /\ BagCardinality(done) + Cardinality({q \in Workers : InFlight(q)}) < NumReq

(***************************************************************************)
(* process_view: resolve, route and method tests.                          *)
(***************************************************************************)
\* the request.method test left out
IsArticleDetailGet_anyMethod(q) ==
  /\ q.path.url_name = "article-detail"
  /\ q.path.namespace = "news"

IsArticleDetailGet(q) ==
  /\ q.path.url_name = "article-detail"
  /\ q.path.namespace = "news"
  /\ q.method = "GET"

IsVideoDetailGet(q) ==
  /\ q.path.url_name = "video-detail"
  /\ q.path.namespace = "news"
  /\ q.method = "GET"

\* request.user and request.META are fixed with the request; they enter the
\* state at the place the handler first reads them
Arrived(method, path) ==
  [Idle EXCEPT !.method = method, !.path = path]

ProcessView(w, method, path) ==
  /\ CanArrive(w)
  /\ LET q == Arrived(method, path) IN
       IF IsArticleDetailGet(q) \/ IsVideoDetailGet(q)
         THEN /\ req' = [req EXCEPT ![w] = [q EXCEPT !.pc = "select"]]
              /\ overlapped' = (overlapped \/ \E v \in Workers : InFlight(v))
              /\ UNCHANGED done
         ELSE /\ Finish(w, q, "ignored", "-", "None")
              /\ UNCHANGED overlapped
  /\ UNCHANGED <<views, cache, now, rowLockEnforced, faults, lastCounted>>
  /\ UNCHANGED restVars

\* resolve(request.path_info) raises
ResolveFails(w) ==
  /\ CanArrive(w)
  /\ CanFail
  /\ faults' = faults + 1
  /\ Finish(w, Idle, "error",
            "Resolver404", Propagate("Resolver404", "process_view"))
  /\ UNCHANGED <<views, cache, now, rowLockEnforced, lastCounted, overlapped>>
  /\ UNCHANGED restVars

(***************************************************************************)
(* _increment_article_view / _increment_video_view                         *)
(***************************************************************************)
\* Article.objects.select_for_update().filter(slug=slug, status='published')
\* Video.objects.select_for_update().filter(slug=slug, is_active=True)
Matching(q) ==
  IF q.path.url_name = "article-detail"
    THEN {<<"article", id>> : id \in {i \in DOMAIN Article :
              Article[i].slug = q.path.slug /\ Article[i].status = "published"}}
    ELSE {<<"video", id>> : id \in {i \in DOMAIN Video :
              Video[i].slug = q.path.slug /\ Video[i].is_active}}

\* the Author profile compared with the user: article.author == request.user
IsAuthorView_profile(user, item) ==
  /\ user # Anonymous
  /\ RowAuthor(item) # NoAuthor
  /\ RowAuthor(item) = user

\* request.user.is_authenticated and row.author and row.author.user == request.user
IsAuthorView(user, item) ==
  /\ user # Anonymous
  /\ RowAuthor(item) # NoAuthor
  /\ Author[RowAuthor(item)].user = user

\* q.own (history): the viewer is the author of the selected row
SelectForUpdate(w, user) ==
  /\ req[w].pc = "select"
  /\ LET q == req[w] IN
       IF Matching(q) = {}
         THEN Finish(w, q, "notfound", "-", "None")
         ELSE \E item \in Matching(q) :
                /\ LockAvailable(item)
                /\ IF IsAuthorView(user, item)
                     THEN Finish(w, [q EXCEPT !.item = item], "author", "-", "None")
                     ELSE /\ req' = [req EXCEPT ![w] =
                                [q EXCEPT !.pc = "cache_get", !.item = item,
                                          !.own = OwnContent(user, item),
                                          !.read = views[item]]]
                          /\ UNCHANGED done
  /\ UNCHANGED <<views, cache, now, rowLockEnforced, faults, lastCounted, overlapped>>
  /\ UNCHANGED restVars

\* an exception inside the try block: the transaction rolls back, the lock
\* is released, the handler logs and returns
RaiseInIncrement(w, e) ==
  /\ CanFail
  /\ faults' = faults + 1
  /\ Finish(w, req[w], "error", e, Propagate(e, "increment"))
  /\ UNCHANGED <<views, cache, now, rowLockEnforced, lastCounted, overlapped>>
  /\ UNCHANGED restVars

SelectFails(w) ==
  /\ req[w].pc = "select"
  /\ RaiseInIncrement(w, "DatabaseError")

\* a hit that sets the marker again (a sliding window)
CacheGet_refresh(w, meta) ==
  /\ req[w].pc = "cache_get"
  /\ LET q == req[w]
         ip == GetClientIp(meta)
     IN IF CacheGetValue(CacheKey(q.item, ip))
          THEN /\ Finish(w, [q EXCEPT !.ip = ip], "dedup", "-", "None")
               /\ cache' = [cache EXCEPT ![CacheKey(q.item, ip)] = CacheExpiry(now)]
          ELSE /\ req' = [req EXCEPT ![w] =
                            [q EXCEPT !.pc = "cache_set", !.ip = ip]]
               /\ UNCHANGED <<done, cache>>
  /\ UNCHANGED <<views, now, rowLockEnforced, faults, lastCounted, overlapped>>
  /\ UNCHANGED restVars

CacheGet(w, meta) ==
  /\ req[w].pc = "cache_get"
  /\ LET q == req[w]
         ip == GetClientIp(meta)
     IN IF CacheGetValue(CacheKey(q.item, ip))
          THEN Finish(w, [q EXCEPT !.ip = ip], "dedup", "-", "None")
          ELSE /\ req' = [req EXCEPT ![w] =
                            [q EXCEPT !.pc = "cache_set", !.ip = ip]]
               /\ UNCHANGED done
  /\ UNCHANGED <<views, cache, now, rowLockEnforced, faults, lastCounted, overlapped>>
  /\ UNCHANGED restVars

CacheGetFails(w) ==
  /\ req[w].pc = "cache_get"
  /\ RaiseInIncrement(w, "CacheError")

CacheSet(w) ==
  /\ req[w].pc = "cache_set"
  /\ cache' = [cache EXCEPT ![CacheKey(req[w].item, req[w].ip)] = CacheExpiry(now)]
  /\ req' = [req EXCEPT ![w].pc = "save"]
  /\ UNCHANGED <<done, views, now, rowLockEnforced, faults, lastCounted, overlapped>>
  /\ UNCHANGED restVars

CacheSetFails(w) ==
  /\ req[w].pc = "cache_set"
  /\ RaiseInIncrement(w, "CacheError")

\* article.views_count += 1; article.save(update_fields=['views_count'])
\* and the commit at the end of the atomic block
NewViewsCount(q) == q.read + 1

Save(w) ==
  /\ req[w].pc = "save"
  /\ views' = [views EXCEPT ![req[w].item] = NewViewsCount(req[w])]
  /\ lastCounted' = [lastCounted EXCEPT ![CacheKey(req[w].item, req[w].ip)] = now]
  /\ Finish(w, req[w], "counted", "-", "None")
  /\ UNCHANGED <<cache, now, rowLockEnforced, faults, overlapped>>
  /\ UNCHANGED restVars

SaveFails(w) ==
  /\ req[w].pc = "save"
  /\ RaiseInIncrement(w, "DatabaseError")

(***************************************************************************)
(* Accounts: CustomUser rows with their subscription snapshot, the plan    *)
(* catalogue and the UserSubscription rows.  Times are seconds on the      *)
(* wall clock `now`; None is NoDate.                                       *)
(***************************************************************************)
NoDate == -1
Roles == {"admin", "editor", "journalist", "subscriber"}

\* CustomUser: role, is_subscribed, subscription_start, subscription_end
NewUser(role) ==
  [role |-> role, is_subscribed |-> FALSE,
   subscription_start |-> NoDate, subscription_end |-> NoDate]

InitCustomUser ==
  [u \in Users |-> IF u = "alice" THEN NewUser("admin") ELSE NewUser("subscriber")]

\* SubscriptionPlan rows: name, duration_days, is_active
SubscriptionPlan ==
  [id \in {1, 2} |->
     IF id = 1 THEN [name |-> "Daily", duration_days |-> 1, is_active |-> TRUE]
               ELSE [name |-> "Legacy", duration_days |-> 2, is_active |-> FALSE]]
NoPlan == 0

\* datetime + timedelta(days=d)
PlusDays(t, d) == t + d * Day
\* (end - start).days : whole days of a timedelta, rounded down
DaysBetween(start, end) == (end - start) \div Day

\* the stored status trusted, the end date not looked at
SubIsActive_statusOnly(sub, t) == sub.status = "active"

\* UserSubscription.is_active
SubIsActive(sub, t) == sub.status = "active" /\ sub.end_date >= t

\* CustomUser.has_active_subscription with the flag trusted alone
HasActiveSubscription_flag(row, t) ==
  IF row.role = "admin" THEN TRUE
  ELSE row.is_subscribed

\* CustomUser.has_active_subscription
HasActiveSubscription(row, t) ==
  IF row.role = "admin" THEN TRUE
  ELSE IF row.is_subscribed /\ row.subscription_end # NoDate
         THEN row.subscription_end >= t
         ELSE FALSE

\* CustomUser.activate_subscription(days), the clock read at t1 and at t2
ActivateSubscription(row, days, t1, t2) ==
  [row EXCEPT !.is_subscribed = TRUE,
              !.subscription_start = t1,
              !.subscription_end = PlusDays(t2, days)]

\* CustomUser.deactivate_subscription(), the clock read at t
DeactivateSubscription(row, t) ==
  [row EXCEPT !.is_subscribed = FALSE, !.subscription_end = t]

\* no Article instance in memory
NotLoaded == -1

(***************************************************************************)
(* Categories and their articles.  Category.article_count is a stored      *)
(* column, written by update_category_count from the post_save and         *)
(* post_delete receivers of Article.                                       *)
(***************************************************************************)
Categories == {"politics", "sports"}
ArticleIds == 1..MaxArticles
ArticleStatus == {"draft", "published"}
\* no Article row with this id
NoArticle == [category |-> "-", status |-> "-"]

\* Article.objects.filter(category=category, status='published').count()
PublishedCount(rows, c) ==
  Cardinality({id \in DOMAIN rows : rows[id].category = c /\ rows[id].status = "published"})

\* one published article in politics, saved through Article.save()
InitArticleRows ==
  [id \in ArticleIds |-> IF id = 1 THEN [category |-> "politics", status |-> "published"]
                         ELSE NoArticle]
InitArticleCount == [c \in Categories |-> PublishedCount(InitArticleRows, c)]

NoOp ==
  [left |-> 0, kind |-> "-", pc |-> "idle", idx |-> 0, user |-> "-", days |-> 0,
   uinst |-> NewUser("-"), inst |-> [user |-> "-", plan |-> NoPlan, status |-> "-",
                                     start_date |-> NoDate, end_date |-> NoDate],
   at |-> "-", plan_id |-> NoPlan, http |-> 0, mail |-> "-", again |-> FALSE]
NoProf == [n |-> 0, kind |-> "-", user |-> "-", uinst |-> NewUser("-")]
\* keys: the keys the view has set on the serializer data
\* lister, listed: the user answered by UserSubscriptionListView and the rows
NoResp == [viewer |-> "-", has_access |-> FALSE, is_preview |-> FALSE, slug |-> "-",
           content |-> <<>>, keys |-> {}, lister |-> "-", listed |-> <<>>]

\* op.left: the number of subscription operations the run may still begin
InitAccountsWith(left) ==
  /\ customUser = InitCustomUser
  /\ userSubscription = <<>>
  /\ op = [NoOp EXCEPT !.left = left]
  /\ prof = NoProf
  /\ resp = NoResp
  /\ plans = DOMAIN SubscriptionPlan

InitAccounts == InitAccountsWith(MaxOps)

(***************************************************************************)
(* The clock.  A request completes well within one clock step, so the      *)
(* clock advances between requests.                                        *)
(***************************************************************************)
Tick ==
  /\ \A w \in Workers : ~InFlight(w)
  /\ now + TickStep <= MaxTicks * TickStep
  /\ now' = now + TickStep
  /\ UNCHANGED <<req, done, views, cache, rowLockEnforced, faults, lastCounted, overlapped>>
  /\ UNCHANGED restVars

InitCommon ==
  /\ req = [w \in Workers |-> Idle]
  /\ done = EmptyBag
  /\ views = InitViews
  /\ cache = [k \in Keys |-> 0]
  /\ now = 0
  /\ faults = 0
  /\ lastCounted = [k \in Keys |-> -1]
  /\ overlapped = FALSE
  /\ loaded = [item \in Items |-> NotLoaded]
  /\ articleRows = InitArticleRows
  /\ articleCount = InitArticleCount

Init == InitCommon /\ rowLockEnforced = TRUE /\ InitAccounts

\* a database backend on which select_for_update() has no effect
InitNoLock == InitCommon /\ rowLockEnforced = FALSE /\ InitAccounts

Next ==
  \/ \E w \in Workers, method \in Methods, path \in Paths :
         ProcessView(w, method, path)
  \/ \E w \in Workers : ResolveFails(w)
  \/ \E w \in Workers, user \in Users \cup {Anonymous} : SelectForUpdate(w, user)
  \/ \E w \in Workers : SelectFails(w)
  \/ \E w \in Workers, meta \in Metas : CacheGet(w, meta)
  \/ \E w \in Workers : CacheGetFails(w)
  \/ \E w \in Workers : CacheSet(w)
  \/ \E w \in Workers : CacheSetFails(w)
  \/ \E w \in Workers : Save(w)
  \/ \E w \in Workers : SaveFails(w)
  \/ Tick

Spec == Init /\ [][Next]_vars
SpecNoLock == InitNoLock /\ [][Next]_vars

(***************************************************************************)
(* Other writers of Article.views_count: Article.increment_views and the   *)
(* full Article.save() of an instance read earlier (the admin change       *)
(* form, any caller of save() without update_fields).                      *)
(***************************************************************************)
ArticleItems == {item \in Items : item[1] = "article"}

\* an Article instance is read from the database
LoadArticle(item) ==
  /\ loaded[item] = NotLoaded
  /\ loaded' = [loaded EXCEPT ![item] = views[item]]
  /\ UNCHANGED <<req, done, views, cache, now, rowLockEnforced, faults, lastCounted,
                 overlapped, customUser, userSubscription, op, prof, resp, plans,
                 articleRows, articleCount>>

\* super().save(*args, **kwargs) writes every column of the instance
SavedViewsCount(item) == loaded[item]

\* Article.save(): the UPDATE waits for the row lock
ArticleSave(item) ==
  /\ loaded[item] # NotLoaded
  /\ LockAvailable(item)
  /\ views' = [views EXCEPT ![item] = SavedViewsCount(item)]
  /\ loaded' = [loaded EXCEPT ![item] = NotLoaded]
  /\ UNCHANGED <<req, done, cache, now, rowLockEnforced, faults, lastCounted,
                 overlapped, customUser, userSubscription, op, prof, resp, plans,
                 articleRows, articleCount>>

\* Article.increment_views(): UPDATE ... SET views_count = views_count + 1
IncrementViews(item) ==
  /\ BagCardinality(done) + Cardinality({q \in Workers : InFlight(q)}) < NumReq
  /\ LockAvailable(item)
  /\ views' = [views EXCEPT ![item] = views[item] + 1]
  /\ done' = done (+) SetToBag({Finished([Idle EXCEPT !.item = item],
                                          "increment_views", "-", "None")})
  /\ UNCHANGED <<req, cache, now, rowLockEnforced, faults, lastCounted,
                 overlapped, loaded, customUser, userSubscription, op, prof, resp, plans,
                 articleRows, articleCount>>

NextEditor ==
  \/ Next
  \/ \E item \in ArticleItems : LoadArticle(item)
  \/ \E item \in ArticleItems : ArticleSave(item)
  \/ \E item \in ArticleItems : IncrementViews(item)

SpecEditor == Init /\ [][NextEditor]_vars

(***************************************************************************)
(* Subscriptions.  SubscribeView.post and the admin actions run            *)
(* UserSubscription.activate / cancel / renew: the CustomUser row is       *)
(* saved first, the UserSubscription row second, each in its own           *)
(* autocommit statement.  timezone.now() is read anew at every call, so    *)
(* two reads may differ.                                                   *)
(***************************************************************************)
\* what a read of the clock may return after an earlier read gave t
Later(t) == {t2 \in {t, t + 1} : t2 % Day <= MaxMoments}

OpInFlight == op.pc \in {"user_save", "sub_save"}
CanBegin == ~OpInFlight /\ op.left > 0

\* what is kept of an operation that has ended
Ended(o, pc, at) ==
  [NoOp EXCEPT !.left = o.left, !.kind = o.kind, !.pc = pc, !.idx = o.idx, !.user = o.user,
               !.at = at]

PlanIds == {NoPlan} \cup DOMAIN SubscriptionPlan
\* the is_active filter left out of the lookup
ValidPlan_anyRow(plan_id) == plan_id \in plans

\* SubscriptionPlan.objects.get(id=plan_id, is_active=True)
ValidPlan(plan_id) ==
  /\ plan_id \in plans
  /\ SubscriptionPlan[plan_id].is_active

\* the answer to a purchase that names no usable plan: 'plan_id is required'
\* when the body has none, 'Invalid plan' when the lookup finds no row
RejectedStatus(plan_id) == IF plan_id = NoPlan THEN 400 ELSE 404

\* the CustomUser instance held by the operation; the fields that
\* activate_subscription / deactivate_subscription assign before save() are
\* left out of the copy
UserInstance(u, kind) ==
  [customUser[u] EXCEPT
     !.is_subscribed = FALSE,
     !.subscription_start = IF kind = "cancel" THEN @ ELSE NoDate,
     !.subscription_end = NoDate]

\* SubscribeView.post up to UserSubscription.objects.create(...), and the
\* first statement of activate(); a bad plan_id is answered 400 / 404
PurchaseCreate(u, plan_id) ==
  /\ CanBegin
  /\ IF ValidPlan(plan_id)
       THEN \E t2 \in Later(now) :
                 LET row == [user |-> u, plan |-> plan_id, status |-> "active",
                             start_date |-> now,
                             end_date |-> PlusDays(t2, SubscriptionPlan[plan_id].duration_days)]
                 IN /\ userSubscription' = Append(userSubscription, row)
                    /\ op' = [left |-> op.left - 1, kind |-> "purchase", pc |-> "user_save",
                              idx |-> Len(userSubscription) + 1, user |-> u,
                              days |-> DaysBetween(row.start_date, row.end_date),
                              uinst |-> UserInstance(u, "purchase"), inst |-> row,
                              at |-> "-", plan_id |-> plan_id, http |-> 0, mail |-> "-",
                              again |-> FALSE]
                    /\ now' = t2
       ELSE /\ op' = [NoOp EXCEPT !.left = op.left - 1, !.kind = "purchase",
                                   !.pc = "rejected", !.user = u, !.plan_id = plan_id,
                                   !.http = RejectedStatus(plan_id)]
            /\ UNCHANGED <<userSubscription, now>>
  /\ resp' = NoResp
  /\ UNCHANGED <<counterVars, plans, faults, customUser, prof>>

\* history: the call repeats, on the same subscription, the call that
\* completed last (subscription.activate() is also what a purchase calls)
Repeats(kind, idx) ==
  /\ op.pc = "done"
  /\ op.idx = idx
  /\ op.kind = kind \/ (kind = "activate" /\ op.kind = "purchase")

\* renew() with days=None falling back to a month when there is no plan
RenewRaises_default(sub) == FALSE

\* renew() with days=None: days stays None when self.plan is None, and
\* timedelta(days=None) raises TypeError
RenewRaises(sub) == sub.plan = NoPlan

\* the admin action reads the row (select_related('user')) and calls the
\* method, which changes the instance in memory; renew() of a row without
\* plan raises TypeError at timedelta(days=None), before any assignment
Begin(kind, idx) ==
  /\ CanBegin
  /\ idx \in 1..Len(userSubscription)
  /\ LET sub == userSubscription[idx]
         days == IF kind = "activate" THEN DaysBetween(sub.start_date, sub.end_date)
                 ELSE IF kind = "renew" /\ sub.plan # NoPlan
                        THEN SubscriptionPlan[sub.plan].duration_days
                 ELSE 0
         inst == IF kind = "activate" THEN [sub EXCEPT !.status = "active"]
                 ELSE IF kind = "cancel" THEN [sub EXCEPT !.status = "cancelled"]
                 ELSE [sub EXCEPT !.end_date = PlusDays(now, days), !.status = "active"]
         o == [left |-> op.left - 1, kind |-> kind, pc |-> "user_save", idx |-> idx, user |-> sub.user,
               days |-> days, uinst |-> UserInstance(sub.user, kind), inst |-> inst,
               at |-> "-", plan_id |-> NoPlan, http |-> 0, mail |-> "-",
               again |-> Repeats(kind, idx)]
     IN op' = IF kind = "renew" /\ RenewRaises(sub) THEN Ended(o, "failed", "begin") ELSE o
  /\ resp' = NoResp
  /\ UNCHANGED <<counterVars, plans, faults, now, customUser, userSubscription, prof>>

\* self.user.activate_subscription(days) / self.user.deactivate_subscription():
\* the whole CustomUser instance is saved
UserSave ==
  /\ op.pc = "user_save"
  /\ \E t2 \in Later(now) :
       /\ customUser' = [customUser EXCEPT ![op.user] =
             IF op.kind = "cancel" THEN DeactivateSubscription(op.uinst, now)
             ELSE ActivateSubscription(op.uinst, op.days, now, t2)]
       /\ now' = IF op.kind = "cancel" THEN now ELSE t2
  /\ op' = [op EXCEPT !.pc = "sub_save"]
  /\ resp' = NoResp
  /\ UNCHANGED <<counterVars, plans, faults, userSubscription, prof>>

\* send_subscription_activated_email: "sent"; "smtp_error", raised by
\* email.send() and caught inside, False returned; "template_error", raised
\* by render_to_string() outside the try block
MailOutcomes == {"sent", "smtp_error", "template_error"}
SendRaises(mail) == mail = "template_error"

\* the view with no try / except around the notification
SubscribeStatus_uncaught(mail) == IF SendRaises(mail) THEN 500 ELSE 201

\* SubscribeView.post after activate(): except Exception around the
\* notification, then Response(..., status=HTTP_201_CREATED)
SubscribeStatus(mail) == 201

\* self.save(): the whole UserSubscription instance is saved; a purchase
\* then sends the notification and answers
SubSave ==
  /\ op.pc = "sub_save"
  /\ userSubscription' = [userSubscription EXCEPT ![op.idx] = op.inst]
  /\ IF op.kind = "purchase"
       THEN \E mail \in MailOutcomes :
              /\ mail # "sent" => CanFail
              /\ faults' = IF mail # "sent" THEN faults + 1 ELSE faults
              /\ op' = [Ended(op, "done", "-") EXCEPT !.mail = mail,
                                                      !.http = SubscribeStatus(mail)]
       ELSE /\ op' = Ended(op, "done", "-")
            /\ UNCHANGED faults
  /\ resp' = NoResp
  /\ UNCHANGED <<counterVars, plans, now, customUser, prof>>

\* one of the two saves raises (or the process dies): nothing is undone
OpFails ==
  /\ OpInFlight
  /\ CanFail
  /\ faults' = faults + 1
  /\ op' = Ended(op, "failed", op.pc)
  /\ resp' = NoResp
  /\ UNCHANGED <<counterVars, plans, now, customUser, userSubscription, prof>>

\* an admin action that is a single statement: it becomes the last operation
\* unless it runs while a subscription operation is in progress
Admin(o, kind) ==
  IF o.pc \in {"user_save", "sub_save"}
    THEN [o EXCEPT !.left = o.left - 1]
    ELSE [NoOp EXCEPT !.left = o.left - 1, !.kind = kind, !.pc = "done"]

\* UserSubscriptionAdmin.expire_subscriptions: queryset.update(status=EXPIRED)
Expire(idx) ==
  /\ op.left > 0
  /\ idx \in 1..Len(userSubscription)
  /\ userSubscription' = [userSubscription EXCEPT ![idx].status = "expired"]
  /\ op' = Admin(op, "expire")
  /\ resp' = NoResp
  /\ UNCHANGED <<counterVars, plans, faults, now, customUser, prof>>

\* SubscriptionPlanAdmin, delete: UserSubscription.plan is on_delete=SET_NULL
DeletePlan(plan_id) ==
  /\ ~OpInFlight
  /\ plan_id \in plans
  /\ plans' = plans \ {plan_id}
  /\ userSubscription' =
       [i \in 1..Len(userSubscription) |->
          IF userSubscription[i].plan = plan_id
            THEN [userSubscription[i] EXCEPT !.plan = NoPlan]
            ELSE userSubscription[i]]
  /\ op' = [NoOp EXCEPT !.left = op.left, !.kind = "delete_plan", !.pc = "done"]
  /\ resp' = NoResp
  /\ UNCHANGED <<counterVars, faults, now, customUser, prof>>

\* UserSerializer: role is writable, the snapshot fields are read only
ProfileBodies == {"-", "admin"}
WithBody(row, body) == IF body = "-" THEN row ELSE [row EXCEPT !.role = body]

\* ProfileView.put / ChangePasswordView.post: request.user is read when the
\* request is authenticated, the fields of the body are set on it
ProfileLoad(u, kind, body) ==
  /\ prof.kind = "-"
  /\ prof.n < MaxProfiles
  /\ kind = "password" => body = "-"
  /\ prof' = [n |-> prof.n + 1, kind |-> kind, user |-> u,
              uinst |-> WithBody(customUser[u], body)]
  /\ resp' = NoResp
  /\ UNCHANGED <<counterVars, plans, faults, now, customUser, userSubscription, op>>

\* serializer.save() / user.save(): the whole CustomUser instance is saved
ProfileSave ==
  /\ prof.kind # "-"
  /\ customUser' = [customUser EXCEPT ![prof.user] = prof.uinst]
  /\ prof' = [NoProf EXCEPT !.n = prof.n]
  /\ resp' = NoResp
  /\ UNCHANGED <<counterVars, plans, faults, now, userSubscription, op>>

(***************************************************************************)
(* ArticleDetailView.retrieve for the published article.                   *)
(***************************************************************************)
\* every authenticated viewer given access
HasAccess_authenticated(viewer) == viewer # Anonymous

\* the snapshot consulted for every viewer, the role never looked at
HasAccess_noAdmin(viewer) ==
  /\ viewer # Anonymous
  /\ customUser[viewer].is_subscribed
  /\ customUser[viewer].subscription_end # NoDate
  /\ customUser[viewer].subscription_end >= now

HasAccess(viewer) ==
  IF viewer # Anonymous
    THEN IF customUser[viewer].role = "admin" THEN TRUE
         ELSE HasActiveSubscription(customUser[viewer], now)
    ELSE FALSE

\* text of n characters
Text(n) == [i \in 1..n |-> IF i % 2 = 1 THEN "a" ELSE "b"]

\* Article.content of the published articles
PublishedContent ==
  [slug \in {"blank", "brief", "long-read"} |->
     IF slug = "blank" THEN Text(0)
     ELSE IF slug = "brief" THEN Text(2)
     ELSE Text(PREVIEW_LEN + 1)]

\* the article the accounts are checked on
Headline == "brief"

\* content[:200]
Prefix(content) ==
  SubSeq(content, 1, IF Len(content) < PREVIEW_LEN THEN Len(content) ELSE PREVIEW_LEN)

\* the preview branch: the keys are set only if data.get('content') is truthy
PreviewData(content) ==
  IF content # <<>>
    THEN [content |-> Prefix(content) \o <<".", ".", ".">>, is_preview |-> TRUE,
          keys |-> {"is_preview", "message", "requires_subscription"}]
    ELSE [content |-> content, is_preview |-> FALSE, keys |-> {}]

FullData(content) ==
  [content |-> content, is_preview |-> FALSE, keys |-> {"is_preview", "requires_subscription"}]

Retrieve(viewer, slug) ==
  /\ LET content == PublishedContent[slug]
         data == IF HasAccess(viewer) THEN FullData(content) ELSE PreviewData(content)
     IN resp' = [NoResp EXCEPT !.viewer = viewer, !.has_access = HasAccess(viewer),
                                !.is_preview = data.is_preview, !.slug = slug,
                                !.content = data.content, !.keys = data.keys]
  /\ UNCHANGED <<counterVars, plans, faults, now, customUser, userSubscription, op, prof>>

\* UserSubscriptionListView: the rows of request.user through
\* UserSubscriptionSerializer, is_active read from the property
ListSubscriptions(u) ==
  /\ resp' = [NoResp EXCEPT
                !.lister = u,
                !.listed = [i \in {j \in 1..Len(userSubscription) : userSubscription[j].user = u} |->
                              [status |-> userSubscription[i].status,
                               is_active |-> SubIsActive(userSubscription[i], now)]]]
  /\ UNCHANGED <<counterVars, plans, faults, now, customUser, userSubscription, op, prof>>

\* a day passes
TickDay ==
  /\ ~OpInFlight
  /\ (now + Day) \div Day <= MaxDays
  /\ now' = now + Day
  /\ resp' = NoResp
  /\ UNCHANGED <<counterVars, plans, faults, customUser, userSubscription, op, prof>>

\* the subscription operations and the clock
NextSubscriptions ==
  \/ \E u \in Users, plan_id \in PlanIds : PurchaseCreate(u, plan_id)
  \/ \E kind \in {"activate", "cancel", "renew"}, idx \in 1..(2 * MaxOps) : Begin(kind, idx)
  \/ UserSave
  \/ SubSave
  \/ OpFails
  \/ \E idx \in 1..(2 * MaxOps) : Expire(idx)
  \/ TickDay

\* the subscriptions with plans being deleted
NextLifecycle ==
  \/ NextSubscriptions
  \/ \E plan_id \in DOMAIN SubscriptionPlan : DeletePlan(plan_id)

SpecLifecycle == Init /\ [][NextLifecycle]_vars

\* the subscriptions with the headline article being read
NextAccounts ==
  \/ NextSubscriptions
  \/ \E viewer \in Users \cup {Anonymous} : Retrieve(viewer, Headline)

SpecAccounts == Init /\ [][NextAccounts]_vars

\* the subscriptions with the users listing theirs
NextList ==
  \/ NextSubscriptions
  \/ \E u \in Users : ListSubscriptions(u)

SpecList == Init /\ [][NextList]_vars

\* the accounts with every published article being read
NextPreview ==
  \/ NextAccounts
  \/ \E viewer \in Users \cup {Anonymous}, slug \in DOMAIN PublishedContent :
         Retrieve(viewer, slug)

SpecPreview == Init /\ [][NextPreview]_vars

\* longer histories of subscription operations
InitLong == InitCommon /\ rowLockEnforced = TRUE /\ InitAccountsWith(2 * MaxOps)
SpecAccountsLong == InitLong /\ [][NextAccounts]_vars

\* the accounts with profile updates and password changes going on
NextProfile ==
  \/ NextAccounts
  \/ \E u \in Users, kind \in {"profile", "password"}, body \in ProfileBodies :
         ProfileLoad(u, kind, body)
  \/ ProfileSave

SpecProfile == Init /\ [][NextProfile]_vars

(***************************************************************************)
(* Articles and Category.article_count.  Article.save() and delete() send  *)
(* post_save / post_delete, whose receivers recompute the count of the     *)
(* categories concerned; QuerySet.update() sends no signal.                *)
(***************************************************************************)
nonCategoryVars ==
  <<req, done, views, cache, now, rowLockEnforced, faults, lastCounted, overlapped,
    loaded, customUser, userSubscription, op, prof, resp, plans>>

\* update_category_count for each category in cs, over the rows as stored
UpdateCategoryCount(counts, rows, cs) ==
  [c \in Categories |-> IF c \in cs THEN PublishedCount(rows, c) ELSE counts[c]]

\* Article.save(), create or change: track_category_change reads the stored
\* category, post_save recomputes the new category and, when it differs,
\* the old one
SaveArticle(id, category, status) ==
  LET old == articleRows[id]
      rows == [articleRows EXCEPT ![id] = [category |-> category, status |-> status]]
      touched == IF old # NoArticle /\ old.category # category
                   THEN {category, old.category} ELSE {category}
  IN /\ articleRows' = rows
     /\ articleCount' = UpdateCategoryCount(articleCount, rows, touched)
     /\ UNCHANGED nonCategoryVars

\* Article.delete(): post_delete recomputes the category of the row
DeleteArticle(id) ==
  /\ articleRows[id] # NoArticle
  /\ LET rows == [articleRows EXCEPT ![id] = NoArticle]
     IN /\ articleRows' = rows
        /\ articleCount' = UpdateCategoryCount(articleCount, rows, {articleRows[id].category})
  /\ UNCHANGED nonCategoryVars

\* ArticleAdmin.make_published / make_draft: queryset.update(status=...)
BulkStatus(ids, status) ==
  /\ ids # {}
  /\ \A id \in ids : articleRows[id] # NoArticle
  /\ articleRows' = [id \in ArticleIds |->
                       IF id \in ids THEN [articleRows[id] EXCEPT !.status = status]
                       ELSE articleRows[id]]
  /\ UNCHANGED articleCount
  /\ UNCHANGED nonCategoryVars

MakePublished(ids) == BulkStatus(ids, "published")
MakeDraft(ids) == BulkStatus(ids, "draft")

NextCategory ==
  \/ \E id \in ArticleIds, category \in Categories, status \in ArticleStatus :
         SaveArticle(id, category, status)
  \/ \E id \in ArticleIds : DeleteArticle(id)
  \/ \E ids \in SUBSET ArticleIds : MakePublished(ids)
  \/ \E ids \in SUBSET ArticleIds : MakeDraft(ids)

SpecCategory == Init /\ [][NextCategory]_vars

TypeOKAccounts ==
  /\ \A u \in Users : customUser[u].role \in Roles
  /\ Len(userSubscription) <= 2 * MaxOps
  /\ op.pc \in {"idle", "rejected", "user_save", "sub_save", "done", "failed"}
  /\ now \div Day <= MaxDays /\ now % Day <= MaxMoments

TypeOK ==
  /\ \A w \in Workers : req[w].pc \in {"idle", "select", "cache_get", "cache_set", "save"}
  /\ \A item \in Items : views[item] \in Nat
  /\ now \in 0..(MaxTicks * TickStep)

(***************************************************************************)
(* Reading the history.                                                    *)
(***************************************************************************)
Recs == BagToSet(done)
Quiescent == \A w \in Workers : ~InFlight(w)

Rec(outcome, item, ip) ==
  [outcome |-> outcome, item |-> item, ip |-> ip, exc |-> "-", ret |-> "None"]

\* number of finished requests for (item, ip) that were counted / deduplicated
NCounted(item, ip) == CopiesIn(Rec("counted", item, ip), done)
NDedup(item, ip) == CopiesIn(Rec("dedup", item, ip), done)

RECURSIVE SumOver(_, _)
SumOver(f, S) ==
  IF S = {} THEN 0
  ELSE LET x == CHOOSE y \in S : TRUE IN f[x] + SumOver(f, S \ {x})

NCountedItem(item) == SumOver([ip \in Ips |-> NCounted(item, ip)], Ips)
NServedItem(item) ==
  SumOver([ip \in Ips |-> NCounted(item, ip) + NDedup(item, ip)], Ips)

\* the published article or active video a request path names, if any
Target(path) ==
  {<<"article", id>> : id \in {i \in DOMAIN Article :
      path.url_name = "article-detail" /\ Article[i].slug = path.slug
      /\ Article[i].status = "published"}}
  \cup
  {<<"video", id>> : id \in {i \in DOMAIN Video :
      path.url_name = "video-detail" /\ Video[i].slug = path.slug
      /\ Video[i].is_active}}

(***************************************************************************)
(* C1: within the hour that starts at a counted view of (item,             *)
(* fingerprint), no further view of that pair is counted: views_count      *)
(* changes only by +1, and only for a pair whose last counted view is at   *)
(* least DEDUP_TIMEOUT seconds old (or that has none).                     *)
(***************************************************************************)
C1_OneCountPerWindow ==
  [][\A item \in Items :
       views'[item] # views[item] =>
         /\ views'[item] = views[item] + 1
         /\ \E w \in Workers :
              /\ req[w].pc = "save" /\ req[w].item = item /\ req'[w].pc = "idle"
              /\ LET k == CacheKey(item, req[w].ip) IN
                   \/ lastCounted[k] = -1
                   \/ now - lastCounted[k] >= DEDUP_TIMEOUT]_vars

\* one counted view and two repeats that were not counted
C1_Witness ==
  \E item \in Items, ip \in Ips :
    /\ NCounted(item, ip) = 1
    /\ NDedup(item, ip) = 2
    /\ views[item] = InitViews[item] + 1

(***************************************************************************)
(* C2: two requests from the same IP for the same published item that      *)
(* were in flight together: exactly one of them increments, and the final  *)
(* views_count is the initial value plus one.                              *)
(***************************************************************************)
C2_ConcurrentSameIp ==
  \A item \in Items, ip \in Ips :
    ( /\ Quiescent
      /\ overlapped
      /\ BagCardinality(done) = 2
      /\ NCounted(item, ip) + NDedup(item, ip) = 2 )
    => /\ NCounted(item, ip) = 1
       /\ views[item] = InitViews[item] + 1

C2_Witness ==
  \E item \in Items, ip \in Ips :
    /\ Quiescent
    /\ overlapped
    /\ BagCardinality(done) = 2
    /\ NCounted(item, ip) = 1
    /\ NDedup(item, ip) = 1
    /\ views[item] = InitViews[item] + 1

(***************************************************************************)
(* C3: no increment is lost.  When the requests served for an item came    *)
(* from pairwise distinct fingerprints and none failed, views_count is     *)
(* the initial value plus the number of those requests.                    *)
(***************************************************************************)
C3_NoLostIncrement ==
  \A item \in Items :
    ( /\ Quiescent
      /\ faults = 0
      /\ \A ip \in Ips : NCounted(item, ip) + NDedup(item, ip) <= 1 )
    => views[item] = InitViews[item] + NServedItem(item)

\* two requests from two fingerprints, in flight together, both counted
C3_Witness ==
  \E item \in Items :
    /\ Quiescent
    /\ overlapped
    /\ faults = 0
    /\ BagCardinality(done) = 2
    /\ \A ip \in Ips : NCounted(item, ip) = 1
    /\ views[item] = InitViews[item] + 2

(***************************************************************************)
(* C4: the counter write is a relative update: when two requests have      *)
(* counted a view of the same item, views_count is at least the initial    *)
(* value plus two, also on a database that ignores the row lock.           *)
(***************************************************************************)
C4_RelativeUpdate ==
  \A item \in Items :
    NCountedItem(item) >= 2 => views[item] >= InitViews[item] + 2

(***************************************************************************)
(* C5: a request whose cache access failed is counted (fail open): after   *)
(* a single request that hit a cache failure, the views_count of its item  *)
(* is the initial value plus one.                                          *)
(***************************************************************************)
C5_FailOpen ==
  ( /\ Quiescent
    /\ BagCardinality(done) = 1
    /\ \E rec \in Recs : rec.exc = "CacheError" )
  => \E item \in Items : views[item] = InitViews[item] + 1

(***************************************************************************)
(* C6: process_view never raises: every finished request, whatever failed  *)
(* in it, returned None to its caller.                                     *)
(***************************************************************************)
C6_NeverRaises ==
  \A rec \in Recs : rec.ret = "None"

C6_Witness ==
  \E rec \in Recs : rec.exc = "Resolver404" /\ rec.ret = "None"

(***************************************************************************)
(* C7: a view by the author of the item is never counted: every step that  *)
(* changes a views_count is the write of a request whose viewer is not     *)
(* the author of that item, and no request of the author gets past the     *)
(* author test.                                                            *)
(***************************************************************************)
C7_AuthorNotCounted ==
  [][/\ \A w \in Workers : ~req'[w].own
     /\ \A item \in Items :
          views'[item] # views[item] =>
            \E w \in Workers :
              /\ req[w].pc = "save" /\ req[w].item = item /\ req'[w].pc = "idle"
              /\ ~req[w].own]_vars

\* the author's view finished while a marker for the item is in the cache
C7_Witness ==
  \E rec \in Recs, ip \in Ips :
    /\ rec.outcome = "author"
    /\ cache[CacheKey(rec.item, ip)] > now
    /\ views[rec.item] = InitViews[rec.item] + NCountedItem(rec.item)

C9_MarkerMeansCounted ==
  \A item \in Items, ip \in Ips :
    ( /\ cache[CacheKey(item, ip)] > now
      /\ \A w \in Workers : ~(InTxn(w) /\ req[w].item = item) )
    => /\ lastCounted[CacheKey(item, ip)] # -1
       /\ now - lastCounted[CacheKey(item, ip)] < DEDUP_TIMEOUT

(***************************************************************************)
(* C10: a views_count or a marker changes only in a step of a GET request  *)
(* that names a published article or an active video.                      *)
(***************************************************************************)
C10_OnlyGetPublished ==
  [][(views' # views \/ cache' # cache) =>
       \E w \in Workers :
         /\ req'[w] # req[w]
         /\ req[w].method = "GET"
         /\ Target(req[w].path) # {}]_vars

\* a non-GET request and a GET for a draft or unknown slug have finished,
\* and nothing was counted or marked
C10_Witness ==
  /\ \E rec \in Recs : rec.outcome = "ignored"
  /\ \E rec \in Recs : rec.outcome = "notfound"
  /\ views = InitViews
  /\ \A k \in Keys : cache[k] = 0

(***************************************************************************)
(* C11: views_count never decreases, whatever the interleaving of view     *)
(* requests, Article.increment_views calls and full Article.save() calls   *)
(* of an instance read before a concurrent increment.                      *)
(***************************************************************************)
C11_ViewsMonotonic ==
  [][\A item \in Items : views'[item] >= views[item]]_vars

(***************************************************************************)
(* Reading the accounts.                                                   *)
(***************************************************************************)
SubsOf(u) == {i \in 1..Len(userSubscription) : userSubscription[i].user = u}
Answered(viewer) == resp.viewer = viewer
NonAdmin(u) == u \in Users /\ customUser[u].role # "admin"

(***************************************************************************)
(* C12: a viewer whose role is admin gets the full article (has_access,    *)
(* is_preview false), whatever the subscription snapshot and the           *)
(* subscription rows are after purchases, activations, cancellations and   *)
(* renewals.                                                               *)
(***************************************************************************)
C12_AdminFull ==
  \A u \in Users :
    (Answered(u) /\ customUser[u].role = "admin")
      => /\ resp.has_access /\ ~resp.is_preview
         /\ resp.content = PublishedContent[resp.slug]

\* the admin is answered after buying a subscription and cancelling it
C12_Witness ==
  \E u \in Users :
    /\ Answered(u) /\ customUser[u].role = "admin"
    /\ ~customUser[u].is_subscribed
    /\ \E i \in SubsOf(u) : userSubscription[i].status = "cancelled"
    /\ resp.has_access /\ ~resp.is_preview

ActiveSubsOf(u) == {i \in SubsOf(u) : userSubscription[i].status = "active"}

Newest(S) ==
  CHOOSE i \in S : \A j \in S :
    \/ userSubscription[j].start_date < userSubscription[i].start_date
    \/ userSubscription[j].start_date = userSubscription[i].start_date /\ j <= i

LatestSub(u) ==
  IF ActiveSubsOf(u) # {} THEN Newest(ActiveSubsOf(u))
  ELSE CHOOSE i \in SubsOf(u) : \A j \in SubsOf(u) : j <= i

LatestIsActive(u) ==
  /\ SubsOf(u) # {}
  /\ SubIsActive(userSubscription[LatestSub(u)], now)

(***************************************************************************)
(* C15: when a viewer who is not admin is given the full article, the      *)
(* viewer's latest subscription record is active in effect (stored         *)
(* status active and end_date >= now), also after the admin action         *)
(* 'mark as expired'.                                                      *)
(***************************************************************************)
C15_FullMeansActive ==
  \A u \in Users :
    (Answered(u) /\ NonAdmin(u) /\ ~OpInFlight /\ resp.has_access)
      => LatestIsActive(u)

(***************************************************************************)
(* C16: when the latest subscription record of a viewer who is not admin   *)
(* is active in effect, the viewer is given the full article; cancelling   *)
(* an older subscription does not take the access away.  Stated for runs   *)
(* in which no operation has failed.                                       *)
(***************************************************************************)
C16_ActiveMeansFull ==
  \A u \in Users :
    (Answered(u) /\ NonAdmin(u) /\ ~OpInFlight /\ faults = 0 /\ LatestIsActive(u))
      => resp.has_access

(***************************************************************************)
(* C17: once the operations on a user's subscriptions have completed, the  *)
(* user's snapshot dates (subscription_start, subscription_end) are the    *)
(* start_date and end_date of the user's most recent subscription record   *)
(* that is not cancelled.                                                  *)
(***************************************************************************)
NotCancelledOf(u) == {i \in SubsOf(u) : userSubscription[i].status # "cancelled"}
MostRecent(S) == CHOOSE i \in S : \A j \in S : j <= i

C17_SnapshotMatchesRecord ==
  \A u \in Users :
    (~OpInFlight /\ faults = 0 /\ NotCancelledOf(u) # {})
      => LET sub == userSubscription[MostRecent(NotCancelledOf(u))]
         IN /\ customUser[u].subscription_start = sub.start_date
            /\ customUser[u].subscription_end = sub.end_date

(***************************************************************************)
(* C18: a lifecycle operation writes the subscription row and the user     *)
(* snapshot together or not at all: when an operation fails, either both   *)
(* rows carry its write or neither does.                                   *)
(***************************************************************************)
\* op.at (history): the statement at which the operation failed
SnapshotWritten == op.at = "sub_save"
\* the row is written by create() in a purchase, by the last save() otherwise
RowWritten == op.kind = "purchase"

C18_AllOrNothing ==
  (op.pc = "failed" /\ op.at # "begin") => (SnapshotWritten <=> RowWritten)

(***************************************************************************)
(* C19: a profile update or a password change never changes the three      *)
(* snapshot fields of any user, also when a lifecycle operation for the    *)
(* same user ran between its read and its save.                            *)
(***************************************************************************)
Snapshot(row) ==
  <<row.is_subscribed, row.subscription_start, row.subscription_end>>

\* the step in which the profile request saves the user
ProfileSaved == prof.kind # "-" /\ prof'.kind = "-"

C19_ProfileKeepsSnapshot ==
  [][ProfileSaved =>
       \A u \in Users : Snapshot(customUser'[u]) = Snapshot(customUser[u])]_vars

(***************************************************************************)
(* C20: a successful purchase of an active plan at t0 creates one          *)
(* subscription, active from t0 to t0 + plan.duration_days, and leaves the *)
(* user subscribed with the snapshot dates equal to the subscription's.    *)
(***************************************************************************)
\* the step in which the purchase creates its row
PurchaseCreated == op'.kind = "purchase" /\ op'.pc = "user_save" /\ op.pc # "user_save"
\* the step in which the purchase returns its 201 response
PurchaseDone == op.kind = "purchase" /\ op.pc = "sub_save" /\ op'.pc = "done"

C20_PurchaseResult ==
  [][/\ PurchaseCreated =>
          /\ Len(userSubscription') = Len(userSubscription) + 1
          /\ userSubscription'[op'.idx].start_date = now
     /\ PurchaseDone =>
          LET sub == userSubscription'[op.idx]
              usr == customUser'[op.user]
          IN /\ sub.status = "active"
             /\ sub.end_date =
                  PlusDays(sub.start_date, SubscriptionPlan[sub.plan].duration_days)
             /\ usr.is_subscribed
             /\ usr.subscription_start = sub.start_date
             /\ usr.subscription_end = sub.end_date]_vars

(***************************************************************************)
(* C21: a purchase that names a missing or an inactive plan (or no plan)   *)
(* is answered with a 4xx status, creates no subscription row and leaves   *)
(* every user row as it was.                                               *)
(***************************************************************************)
\* the step in which SubscribeView.post takes a request up
PurchaseRequested ==
  /\ ~OpInFlight
  /\ op'.kind = "purchase" /\ op'.left = op.left - 1

C21_InvalidPlanRejected ==
  [][(/\ PurchaseRequested
      /\ \/ op'.plan_id \notin plans
         \/ ~SubscriptionPlan[op'.plan_id].is_active)
       => /\ op'.pc = "rejected"
          /\ op'.http \in 400..499
          /\ userSubscription' = userSubscription
          /\ customUser' = customUser]_vars

\* a purchase of an active plan that the admin has deleted
C21_Witness ==
  /\ op.pc = "rejected" /\ op.http = 404
  /\ op.plan_id \in DOMAIN SubscriptionPlan /\ op.plan_id \notin plans
  /\ SubscriptionPlan[op.plan_id].is_active

(***************************************************************************)
(* C22: when the notification of a purchase fails, the purchase still      *)
(* succeeds: the subscription is stored active, the user snapshot written  *)
(* by the purchase stays, and the caller is answered 201.                  *)
(***************************************************************************)
C22_MailFailureKeepsPurchase ==
  [][(PurchaseDone /\ op'.mail # "sent")
       => /\ op'.http = 201
          /\ userSubscription'[op.idx].status = "active"
          /\ customUser' = customUser
          /\ customUser'[op.user].is_subscribed]_vars

\* the notification raised out of send_subscription_activated_email
C22_Witness ==
  /\ op.kind = "purchase" /\ op.pc = "done"
  /\ op.mail = "template_error" /\ op.http = 201
  /\ customUser[op.user].is_subscribed

(***************************************************************************)
(* C23: activate is idempotent.  When activate() is called on a            *)
(* subscription on which the last completed call was activate() too, at    *)
(* any later time, the user snapshot stays as the first call left it, and  *)
(* the subscription stays active with the same end_date.                   *)
(***************************************************************************)
\* the steps of the repeated call
SecondUserSave(kind) ==
  op.kind = kind /\ op.again /\ op.pc = "user_save" /\ op'.pc = "sub_save"
SecondSubSave(kind) ==
  op.kind = kind /\ op.again /\ op.pc = "sub_save" /\ op'.pc = "done"

C23_ActivateIdempotent ==
  [][/\ SecondUserSave("activate") =>
          Snapshot(customUser'[op.user]) = Snapshot(customUser[op.user])
     /\ SecondSubSave("activate") =>
          /\ userSubscription'[op.idx].status = "active"
          /\ userSubscription'[op.idx].end_date = userSubscription[op.idx].end_date]_vars

(***************************************************************************)
(* C24: cancel() on a subscription that is stored cancelled is a no-op:    *)
(* the user snapshot stays as it was before the call and the subscription  *)
(* stays cancelled, whatever the user has bought or activated since.       *)
(***************************************************************************)
\* the steps of a cancel() whose subscription is already cancelled
\* (in a run where no operation has failed)
CancelAgain ==
  /\ faults = 0
  /\ op.kind = "cancel" /\ userSubscription[op.idx].status = "cancelled"

C24_CancelCancelledNoOp ==
  [][/\ (CancelAgain /\ op.pc = "user_save" /\ op'.pc = "sub_save") =>
          Snapshot(customUser'[op.user]) = Snapshot(customUser[op.user])
     /\ (CancelAgain /\ op.pc = "sub_save" /\ op'.pc = "done") =>
          userSubscription'[op.idx].status = "cancelled"]_vars

(***************************************************************************)
(* C25: renew() called without days on a subscription whose plan is null   *)
(* fails, and the subscription row and every user row stay as they were;   *)
(* on a subscription with a plan it takes plan.duration_days.              *)
(***************************************************************************)
\* the step in which renew() is called
RenewCalled == ~OpInFlight /\ op'.kind = "renew" /\ op'.left = op.left - 1

C25_RenewWithoutPlan ==
  [][RenewCalled =>
       LET sub == userSubscription[op'.idx]
       IN IF sub.plan = NoPlan
            THEN /\ op'.pc = "failed"
                 /\ userSubscription' = userSubscription
                 /\ customUser' = customUser
            ELSE /\ op'.pc = "user_save"
                 /\ op'.days = SubscriptionPlan[sub.plan].duration_days
                 /\ op'.inst.end_date = PlusDays(now, SubscriptionPlan[sub.plan].duration_days)]_vars

\* renew() has failed on a subscription whose plan was deleted
C25_Witness ==
  /\ op.kind = "renew" /\ op.pc = "failed" /\ op.at = "begin"
  /\ userSubscription[op.idx].plan = NoPlan
  /\ userSubscription[op.idx].status = "active"

(***************************************************************************)
(* C26: when renew() has completed, whatever the status was before, the    *)
(* subscription is active with end_date = (time of the call) + days, the   *)
(* user is subscribed and the snapshot's subscription_end equals the       *)
(* subscription's new end_date.                                            *)
(***************************************************************************)
\* the step in which renew() returns (in a run where no operation has failed)
RenewDone == faults = 0 /\ op.kind = "renew" /\ op.pc = "sub_save" /\ op'.pc = "done"

C26_RenewResult ==
  [][RenewDone =>
       LET sub == userSubscription'[op.idx]
           usr == customUser'[op.user]
       IN /\ sub.status = "active"
          /\ sub.end_date <= PlusDays(now, op.days)
          /\ usr.is_subscribed
          /\ usr.subscription_end = sub.end_date]_vars

(***************************************************************************)
(* C27: in every response to a viewer decided Preview, the content is the  *)
(* first 200 characters of the article's content and the flags is_preview  *)
(* and requires_subscription are set, for content of every length, the     *)
(* empty content included.                                                 *)
(***************************************************************************)
C27_PreviewPayload ==
  (resp.viewer # "-" /\ ~resp.has_access)
    => /\ resp.content = Prefix(PublishedContent[resp.slug])
       /\ {"is_preview", "requires_subscription"} \subseteq resp.keys
       /\ resp.is_preview

(***************************************************************************)
(* C28: a subscription is reported active only if its stored status is     *)
(* active and end_date >= now; one stored active whose end_date has passed *)
(* is reported not active, and the stored status is left as it is.         *)
(***************************************************************************)
C28_EffectiveStatus ==
  resp.lister # "-" =>
    \A i \in DOMAIN resp.listed :
      LET sub == userSubscription[i]
      IN /\ resp.listed[i].is_active => (sub.status = "active" /\ sub.end_date >= now)
         /\ (sub.status = "active" /\ sub.end_date < now) => ~resp.listed[i].is_active
         /\ (sub.status = "active" /\ sub.end_date >= now) => resp.listed[i].is_active
         /\ resp.listed[i].status = sub.status

\* a purchase has lapsed, no one marked it expired, and the user lists it
C28_Witness ==
  /\ resp.lister # "-"
  /\ \E i \in DOMAIN resp.listed :
       /\ userSubscription[i].status = "active"
       /\ userSubscription[i].end_date < now
       /\ ~resp.listed[i].is_active

(***************************************************************************)
(* C29: a user who is not admin cannot change the access decision through  *)
(* profile updates: whatever the bodies of the ProfileView requests, the   *)
(* role stays what it was, and without an active subscription the user is  *)
(* still decided Preview.                                                  *)
(***************************************************************************)
C29_RoleNotSelfService ==
  \A u \in Users :
    InitCustomUser[u].role # "admin"
      => /\ customUser[u].role = InitCustomUser[u].role
         /\ (Answered(u) /\ ~HasActiveSubscription(customUser[u], now)) => ~resp.has_access

(***************************************************************************)
(* C30: in every reachable state Category.article_count of every category  *)
(* equals the number of published articles of the category, after saves,   *)
(* deletes, changes of category and the admin bulk actions.                *)
(***************************************************************************)
C30_ArticleCountExact ==
  \A c \in Categories : articleCount[c] = PublishedCount(articleRows, c)

====
